---- MODULE Spec2Model ----
(***************************************************************************)
(* Model of gold_price_server.py: the SQL safety gate (is_safe_sql), the   *)
(* database existence probe, the query executor and the six tool           *)
(* operations.  Strings are sequences of one-character strings so that     *)
(* strip / lower / startswith / `in` are computed as the code computes     *)
(* them.  The SQLite driver is the environment: each driver call either    *)
(* succeeds, raises sqlite3.Error, or raises some other exception.         *)
(***************************************************************************)
EXTENDS Integers, Sequences, FiniteSets, TLC

VARIABLES
    fileExists,   \* os.path.exists(SQLITE_DB_PATH)
    tableExists,  \* sqlite_master holds a table named gold_price
    rows,         \* the dates of the rows of gold_price, in storage order
    pc,           \* "idle": waiting for a tool call; "returned": a call has produced its outcome
    op,           \* the tool operation of the last call
    days,         \* the days argument of the last get_price_range call (0 otherwise)
    sql,          \* the string passed to execute_sql_query by the last call (<<>> if none)
    gate,         \* outcome of is_safe_sql in the last call: "not_run", "accepted", "rejected"
    result,       \* what the last call returned (or that it raised)
    opened,       \* number of sqlite3.connect calls that succeeded during the last call
    probed,       \* check_database_exists was called during the last call
    handed,       \* the caller-level query strings handed to conn.execute during the last call
    openConns     \* connections opened and neither closed nor reclaimed

vars == <<fileExists, tableExists, rows, pc, op, days, sql, gate, result,
          opened, probed, handed, openConns>>

----------------------------------------------------------------------------
(* Bounds of the model *)

MaxRows == 2      \* at most this many rows in gold_price
MaxTail == 2      \* at most this many trailing characters appended to an input query
DaysSlack == 2    \* days arguments reach this far to either side of MIN_DAYS and MAX_DAYS
MaxLeaked == 1    \* tool calls are followed while fewer than this many connections are left open

(* Program constants *)

MIN_DAYS == 1
MAX_DAYS == 365

----------------------------------------------------------------------------
(* Python str operations *)

Min(a, b) == IF a < b THEN a ELSE b

\* characters removed by str.strip() / str.rstrip() without argument
Whitespace == {" ", "\t", "\n", "\r", "\f"}

UpperChars == <<"A","B","C","D","E","F","G","H","I","J","K","L","M",
                "N","O","P","Q","R","S","T","U","V","W","X","Y","Z">>
LowerChars == <<"a","b","c","d","e","f","g","h","i","j","k","l","m",
                "n","o","p","q","r","s","t","u","v","w","x","y","z">>

ToLower ==
    [c \in {UpperChars[i] : i \in 1..26} |-> LowerChars[CHOOSE i \in 1..26 : UpperChars[i] = c]]

\* str.lower() on one character
lower_char(c) == IF c \in DOMAIN ToLower THEN ToLower[c] ELSE c

lower(s) == [i \in 1..Len(s) |-> lower_char(s[i])]

RECURSIVE lstrip(_)
lstrip(s) == IF s # <<>> /\ Head(s) \in Whitespace THEN lstrip(Tail(s)) ELSE s

\* str.rstrip(chars): drop trailing characters that are in cs
RECURSIVE rstrip_chars(_, _)
rstrip_chars(s, cs) ==
    IF s # <<>> /\ s[Len(s)] \in cs THEN rstrip_chars(SubSeq(s, 1, Len(s) - 1), cs) ELSE s

rstrip(s) == rstrip_chars(s, Whitespace)

strip(s) == rstrip(lstrip(s))

startswith(s, p) == Len(s) >= Len(p) /\ SubSeq(s, 1, Len(p)) = p

\* Python `p in s` on strings
contains(s, p) == \E i \in 1..(Len(s) - Len(p) + 1) : SubSeq(s, i, i + Len(p) - 1) = p

DigitChars == <<"0","1","2","3","4","5","6","7","8","9">>

\* str(n), as the f-string of get_price_range formats days
RECURSIVE int_to_str(_)
int_to_str(n) ==
    IF n < 0 THEN <<"-">> \o int_to_str(0 - n)
    ELSE IF n < 10 THEN <<DigitChars[n + 1]>>
    ELSE int_to_str(n \div 10) \o <<DigitChars[(n % 10) + 1]>>

----------------------------------------------------------------------------
(* is_safe_sql *)

forbidden_keywords_mut ==
    << <<"i","n","s","e","r","t">>, <<"u","p","d","a","t","e">>, <<"d","e","l","e","t","e">>, <<"d","r","o","p">>, <<"a","l","t","e","r">>, <<"c","r","e","a","t","e">>,
       <<"t","r","u","n","c","a","t","e">>, <<"p","r","a","g","m","a">>, <<"a","t","t","a","c","h">>, <<"d","e","t","a","c","h">> >>
forbidden_keywords ==
    << <<"i","n","s","e","r","t">>, <<"u","p","d","a","t","e">>, <<"d","e","l","e","t","e">>, <<"d","r","o","p">>, <<"a","l","t","e","r">>, <<"c","r","e","a","t","e">>,
       <<"t","r","u","n","c","a","t","e">>, <<"r","e","p","l","a","c","e">>, <<"p","r","a","g","m","a">>, <<"a","t","t","a","c","h">>, <<"d","e","t","a","c","h">> >>

\* sql_lower = sql.strip().lower()
normalize(s) == lower(strip(s))

starts_with_select(sql_lower) == startswith(sql_lower, <<"s","e","l","e","c","t">>)

references_gold_price_mut(sql_lower) == TRUE
references_gold_price(sql_lower) == contains(sql_lower, <<"g","o","l","d","_","p","r","i","c","e">>)

\* ";" in sql_lower and sql_lower.rstrip().rstrip(';') != sql_lower.rstrip()
semicolon_check_fails(sql_lower) ==
    /\ contains(sql_lower, <<";">>)
    /\ rstrip_chars(rstrip(sql_lower), {";"}) # rstrip(sql_lower)

has_forbidden_keyword(sql_lower) ==
    \E k \in 1..Len(forbidden_keywords) : contains(sql_lower, forbidden_keywords[k])

is_safe_sql(s) ==
    IF s = <<>> THEN FALSE
    ELSE LET sql_lower == normalize(s) IN
         IF ~starts_with_select(sql_lower) THEN FALSE
         ELSE IF ~references_gold_price(sql_lower) THEN FALSE
         ELSE IF semicolon_check_fails(sql_lower) THEN FALSE
         ELSE IF has_forbidden_keyword(sql_lower) THEN FALSE
         ELSE TRUE

----------------------------------------------------------------------------
(* Inputs of run_query: lead \o verb \o target \o ending, where an ending is a
   tail, an extra, or a semicolon followed by an extra *)

Leads == { <<>>, <<" ">> }
Verbs == { <<>>, <<"s","e","l","e","c","t">>, <<"S","e","L","e","C","T">> }
Targets == { <<>>, <<" ","*"," ","f","r","o","m"," ","g","o","l","d","_","p","r","i","c","e">>, <<" ","*"," ","f","r","o","m"," ","o","t","h","e","r","_","t","a","b","l","e">> }
Extras == { <<>>, <<" ","'","I","N","S","E","R","T","'">>, <<" ","-","-","U","p","d","a","t","e">>, <<" ","d","e","l","e","t","e","d">>, <<" ","/","*","d","r","o","p","*","/">>, <<" ","A","L","T","E","R">>,
            <<" ","c","r","e","a","t","e","d","_","a","t">>, <<" ","T","r","u","n","c","a","t","e">>, <<" ","R","E","P","L","A","C","E","(","x",")">>, <<" ","p","r","a","g","m","a">>, <<" ","r","e","a","t","t","a","c","h">>,
            <<" ","D","E","T","A","C","H">> }
TailChars == {";", " ", "x"}
Tails == UNION { [1..n -> TailChars] : n \in 0..MaxTail }

Endings == Tails \cup Extras \cup { <<";">> \o e : e \in Extras }

SqlInputs == { l \o v \o t \o e : l \in Leads, v \in Verbs, t \in Targets, e \in Endings }

\* days arguments: around both limits of the accepted range, and some inside it
\* (7 is the default of the parameter)
DaysInputs ==
    ((MIN_DAYS - DaysSlack)..(MIN_DAYS + DaysSlack))
        \cup ((MAX_DAYS - DaysSlack)..(MAX_DAYS + DaysSlack))
        \cup {7, 10, 100}

\* the tables the database file can hold: n rows with the dates 1..n, in any storage order
Tables ==
    UNION { { r \in [1..n -> 1..n] : \A i, j \in 1..n : i # j => r[i] # r[j] }
            : n \in 0..MaxRows }

----------------------------------------------------------------------------
(* Return values *)

SQLITE_DB_PATH == <<"/","w","o","r","k","s","p","a","c","e","s","/","M","C","P","_","P","r","o","j","e","c","t","s","/","g","o","l","d","_","p","r","i","c","e",".","d","b">>

\* the working directory of the process, used by os.path.abspath for relative paths only
Cwd == <<"/","s","r","v">>

\* os.path.abspath (the configured path has no "." or ".." component to normalise)
abspath(p) == IF startswith(p, <<"/">>) THEN p ELSE Cwd \o <<"/">> \o p

\* every return value as one record shape; fields a return value lacks keep these defaults
NoResult ==
    [tag |-> "none", error |-> "", status |-> "", database_path |-> <<>>,
     data |-> <<>>, row_count |-> 0, query |-> <<>>]

\* {"error": ...}
Failure(msg) == [NoResult EXCEPT !.tag = "failure", !.error = msg]

\* {"error": "Database not found or invalid...", "database_path": ...}
db_not_found == [Failure("database_not_found") EXCEPT !.database_path = abspath(SQLITE_DB_PATH)]

\* the except clauses of execute_sql_query and get_table_info
caught(kind) ==
    IF kind = "driver" THEN Failure("sqlite_error") ELSE Failure("unexpected_error")

\* an exception left the operation
Raised == [NoResult EXCEPT !.tag = "raised"]

query_success_mut(q, res) ==
    [NoResult EXCEPT !.tag = "success", !.data = res, !.row_count = Len(res),
                     !.query = normalize(q)]
\* {"success": True, "data": result, "row_count": len(result), "query": sql}
query_success(q, res) ==
    [NoResult EXCEPT !.tag = "success", !.data = res, !.row_count = Len(res), !.query = q]

\* the success value of get_table_info (the column descriptors are not modelled)
table_info_success ==
    [NoResult EXCEPT !.tag = "success", !.row_count = Len(rows),
                     !.database_path = abspath(SQLITE_DB_PATH)]

\* the values of database_status
Status(s) ==
    [NoResult EXCEPT !.tag = "status", !.status = s,
                     !.database_path = abspath(SQLITE_DB_PATH)]

status_ready == [Status("ready") EXCEPT !.row_count = Len(rows)]

----------------------------------------------------------------------------
(* The SQLite driver *)

\* One call's driver behaviour: the first driver call that fails (site), how it
\* fails (kind: "driver" is sqlite3.Error, "other" any other exception), whether
\* the runtime reclaims a connection the code left unclosed before the call
\* returns (gc), and which rows a free-form query selects (pick).
Scenarios(sites, leakSites) ==
    { [site |-> "none", kind |-> "ok", gc |-> FALSE, pick |-> k] : k \in 0..MaxRows }
    \cup { f \in [site : sites, kind : {"driver", "other"}, gc : BOOLEAN, pick : {0}] :
             f.gc => f.site \in leakSites }

\* connections a code path leaves without close(): still open unless reclaimed
unclosed(f) == IF f.gc THEN 0 ELSE 1

LimitPrefix == <<"S","E","L","E","C","T"," ","*"," ","F","R","O","M"," ","g","o","l","d","_","p","r","i","c","e"," ","O","R","D","E","R"," ","B","Y"," ","d","a","t","e"," ","D","E","S","C"," ","L","I","M","I","T"," ">>

digit_value(c) == CHOOSE d \in 0..9 : DigitChars[d + 1] = c

RECURSIVE parse_int(_)
parse_int(ds) ==
    IF ds = <<>> THEN 0
    ELSE parse_int(SubSeq(ds, 1, Len(ds) - 1)) * 10 + digit_value(ds[Len(ds)])

limit_text(q) == SubSeq(q, Len(LimitPrefix) + 1, Len(q))

is_limit_query(q) ==
    /\ startswith(q, LimitPrefix)
    /\ Len(q) > Len(LimitPrefix)
    /\ \A i \in 1..Len(limit_text(q)) : \E d \in 1..10 : DigitChars[d] = limit_text(q)[i]

seq_max(s) == CHOOSE x \in {s[i] : i \in 1..Len(s)} : \A i \in 1..Len(s) : s[i] <= x

RECURSIVE order_by_date_desc(_)
order_by_date_desc(s) ==
    IF s = <<>> THEN <<>>
    ELSE LET m == seq_max(s) IN <<m>> \o order_by_date_desc(SelectSeq(s, LAMBDA x : x # m))

\* conn.execute(sql).fetchall(): ORDER BY date DESC LIMIT n as SQLite evaluates it;
\* any other statement that executes selects some of the rows
fetchall(q, pick) ==
    IF is_limit_query(q)
    THEN LET sorted == order_by_date_desc(rows)
         IN SubSeq(sorted, 1, Min(parse_int(limit_text(q)), Len(sorted)))
    ELSE SubSeq(rows, 1, Min(pick, Len(rows)))

----------------------------------------------------------------------------
(* check_database_exists *)

path_exists_mut == TRUE
\* os.path.exists(SQLITE_DB_PATH)
path_exists == fileExists

\* ret: "true", "false", or "raised" when an exception other than sqlite3.Error escapes
check_database_exists(f) ==
    IF ~path_exists
    THEN [ret |-> "false", opened |-> 0, leaked |-> 0]
    ELSE IF f.site = "probe_connect"
    THEN [ret |-> IF f.kind = "driver" THEN "false" ELSE "raised", opened |-> 0, leaked |-> 0]
    ELSE IF f.site = "probe_execute"
    THEN [ret |-> IF f.kind = "driver" THEN "false" ELSE "raised",
          opened |-> 1, leaked |-> unclosed(f)]
    ELSE [ret |-> IF tableExists THEN "true" ELSE "false", opened |-> 1, leaked |-> 0]

----------------------------------------------------------------------------
(* The operations: each yields the effect of one whole call *)

Effect(p) ==
    [result |-> NoResult, sql |-> <<>>, gate |-> "not_run", opened |-> p.opened,
     probed |-> TRUE, handed |-> <<>>, leaked |-> p.leaked]

execute_sql_query(q, f) ==
    LET p == check_database_exists(f)
        base == [Effect(p) EXCEPT !.sql = q]
    IN IF p.ret = "raised" THEN [base EXCEPT !.result = Raised]
       ELSE IF p.ret = "false" THEN [base EXCEPT !.result = db_not_found]
       ELSE IF ~is_safe_sql(q)
       THEN [base EXCEPT !.gate = "rejected", !.result = Failure("unsafe")]
       ELSE IF f.site = "connect"
       THEN [base EXCEPT !.gate = "accepted", !.result = caught(f.kind)]
       ELSE IF f.site = "execute"
       THEN [base EXCEPT !.gate = "accepted", !.opened = @ + 1, !.handed = <<q>>,
                         !.result = caught(f.kind)]
       ELSE [base EXCEPT !.gate = "accepted", !.opened = @ + 1, !.handed = <<q>>,
                         !.result = query_success(q, fetchall(q, f.pick))]

run_query(q, f) == execute_sql_query(q, f)

get_table_info(f) ==
    LET p == check_database_exists(f)
        base == Effect(p)
    IN IF p.ret = "raised" THEN [base EXCEPT !.result = Raised]
       ELSE IF p.ret = "false" THEN [base EXCEPT !.result = db_not_found]
       ELSE IF f.site = "connect" THEN [base EXCEPT !.result = caught(f.kind)]
       ELSE IF f.site \in {"pragma", "count"}
       THEN [base EXCEPT !.opened = @ + 1, !.result = caught(f.kind)]
       ELSE [base EXCEPT !.opened = @ + 1, !.result = table_info_success]

sample_data(f) == execute_sql_query(<<"S","E","L","E","C","T"," ","*"," ","F","R","O","M"," ","g","o","l","d","_","p","r","i","c","e"," ","O","R","D","E","R"," ","B","Y"," ","d","a","t","e"," ","D","E","S","C"," ","L","I","M","I","T"," ","5">>, f)

get_latest_price(f) == execute_sql_query(<<"S","E","L","E","C","T"," ","*"," ","F","R","O","M"," ","g","o","l","d","_","p","r","i","c","e"," ","O","R","D","E","R"," ","B","Y"," ","d","a","t","e"," ","D","E","S","C"," ","L","I","M","I","T"," ","1">>, f)

days_out_of_range_low(d) == d < MIN_DAYS - 1 \/ d > MAX_DAYS
days_out_of_range_high(d) == d < MIN_DAYS \/ d > MAX_DAYS + 1
\* days < 1 or days > 365
days_out_of_range(d) == d < MIN_DAYS \/ d > MAX_DAYS

get_price_range(d, f) ==
    IF days_out_of_range(d)
    THEN [result |-> Failure("days_range"), sql |-> <<>>, gate |-> "not_run", opened |-> 0,
          probed |-> FALSE, handed |-> <<>>, leaked |-> 0]
    ELSE execute_sql_query(LimitPrefix \o int_to_str(d), f)

database_status(f) ==
    IF ~path_exists
    THEN [result |-> Status("missing"), sql |-> <<>>, gate |-> "not_run", opened |-> 0,
          probed |-> FALSE, handed |-> <<>>, leaked |-> 0]
    ELSE LET p == check_database_exists(f)
             base == Effect(p)
         IN IF p.ret = "raised" THEN [base EXCEPT !.result = Raised]
            ELSE IF p.ret = "false" THEN [base EXCEPT !.result = Status("invalid")]
            ELSE IF f.site = "status_connect"
            THEN [base EXCEPT !.result = IF f.kind = "driver" THEN Status("error") ELSE Raised]
            ELSE IF f.site = "status_count"
            THEN [base EXCEPT !.opened = @ + 1, !.leaked = @ + unclosed(f),
                              !.result = IF f.kind = "driver" THEN Status("error") ELSE Raised]
            ELSE [base EXCEPT !.opened = @ + 1, !.result = status_ready]

----------------------------------------------------------------------------
(* State machine *)

ProbeSites == {"probe_connect", "probe_execute"}
ExecutorScenarios == Scenarios(ProbeSites \cup {"connect", "execute"}, {"probe_execute"})
TableInfoScenarios == Scenarios(ProbeSites \cup {"connect", "pragma", "count"}, {"probe_execute"})
StatusScenarios ==
    Scenarios(ProbeSites \cup {"status_connect", "status_count"}, {"probe_execute", "status_count"})

Init ==
    /\ fileExists \in BOOLEAN
    /\ tableExists \in (IF fileExists THEN BOOLEAN ELSE {FALSE})
    /\ rows \in (IF tableExists THEN Tables ELSE {<<>>})
    /\ pc = "idle"
    /\ op = "none"
    /\ days = 0
    /\ sql = <<>>
    /\ gate = "not_run"
    /\ result = NoResult
    /\ opened = 0
    /\ probed = FALSE
    /\ handed = <<>>
    /\ openConns = 0

\* the server waits for a tool call
Ready == pc = "idle" /\ openConns < MaxLeaked

\* the state after the tool call `name` has run to its end with effect e
Call(name, d, e) ==
    /\ pc' = "returned"
    /\ op' = name
    /\ days' = d
    /\ sql' = e.sql
    /\ gate' = e.gate
    /\ result' = e.result
    /\ opened' = e.opened
    /\ probed' = e.probed
    /\ handed' = e.handed
    /\ openConns' = openConns + e.leaked
    /\ UNCHANGED <<fileExists, tableExists, rows>>

RunQuery ==
    /\ Ready
    /\ \E q \in SqlInputs, f \in ExecutorScenarios : Call("run_query", 0, run_query(q, f))

GetTableInfo ==
    /\ Ready
    /\ \E f \in TableInfoScenarios : Call("get_table_info", 0, get_table_info(f))

SampleData ==
    /\ Ready
    /\ \E f \in ExecutorScenarios : Call("sample_data", 0, sample_data(f))

GetLatestPrice ==
    /\ Ready
    /\ \E f \in ExecutorScenarios : Call("get_latest_price", 0, get_latest_price(f))

GetPriceRange ==
    /\ Ready
    /\ \E d \in DaysInputs, f \in ExecutorScenarios : Call("get_price_range", d, get_price_range(d, f))

DatabaseStatus ==
    /\ Ready
    /\ \E f \in StatusScenarios : Call("database_status", 0, database_status(f))

\* the server hands the outcome to the transport and waits for the next tool call
Respond ==
    /\ pc = "returned"
    /\ pc' = "idle"
    /\ op' = "none"
    /\ days' = 0
    /\ sql' = <<>>
    /\ gate' = "not_run"
    /\ result' = NoResult
    /\ opened' = 0
    /\ probed' = FALSE
    /\ handed' = <<>>
    /\ UNCHANGED <<fileExists, tableExists, rows, openConns>>

Next ==
    \/ RunQuery
    \/ GetTableInfo
    \/ SampleData
    \/ GetLatestPrice
    \/ GetPriceRange
    \/ DatabaseStatus
    \/ Respond

Spec == Init /\ [][Next]_vars

----------------------------------------------------------------------------
(* Properties *)

Returned(name) == pc = "returned" /\ op = name

\* a semicolon followed, somewhere later, by a character that is neither whitespace nor a semicolon
StackedContent(s) ==
    \E i \in 1..Len(s) : \E j \in (i + 1)..Len(s) :
        s[i] = ";" /\ s[j] \notin (Whitespace \cup {";"})

\* C1: a run_query string in which a semicolon is followed by non-whitespace,
\* non-semicolon content is rejected by is_safe_sql and never handed to the driver.
C1_StackedRejected ==
    (Returned("run_query") /\ StackedContent(sql))
        => (gate # "accepted" /\ handed = <<>>)

\* s is q;w with q free of semicolons and accepted by the gate, and w whitespace only
TrailingTerminator(s) ==
    \E i \in 1..Len(s) :
        /\ s[i] = ";"
        /\ \A j \in 1..Len(s) : (j < i => s[j] # ";") /\ (j > i => s[j] \in Whitespace)
        /\ is_safe_sql(SubSeq(s, 1, i - 1))

\* C2: when the gate accepts q (no semicolon in it), it also accepts q followed by
\* one semicolon and optional whitespace.
C2_TrailingSemicolonAccepted ==
    (Returned("run_query") /\ TrailingTerminator(sql)) => gate # "rejected"

C3_Keywords ==
    { <<"i","n","s","e","r","t">>, <<"u","p","d","a","t","e">>, <<"d","e","l","e","t","e">>, <<"d","r","o","p">>, <<"a","l","t","e","r">>, <<"c","r","e","a","t","e">>, <<"t","r","u","n","c","a","t","e">>,
      <<"r","e","p","l","a","c","e">>, <<"p","r","a","g","m","a">>, <<"a","t","t","a","c","h">>, <<"d","e","t","a","c","h">> }

\* s holds a forbidden keyword at some position, in any letter case
MentionsForbidden(s) ==
    \E kw \in C3_Keywords : \E i \in 1..(Len(s) - Len(kw) + 1) :
        \A k \in 1..Len(kw) : lower_char(s[i + k - 1]) = kw[k]

\* C3: a run_query string holding a forbidden keyword anywhere, in any letter case,
\* is rejected by is_safe_sql and not handed to the driver, even when it starts
\* with select and mentions gold_price.
C3_ForbiddenRejected ==
    (Returned("run_query") /\ MentionsForbidden(sql))
        => (~is_safe_sql(sql) /\ gate # "accepted" /\ handed = <<>>)

C3_Witness ==
    /\ Returned("run_query")
    /\ gate = "rejected"
    /\ MentionsForbidden(sql)
    /\ startswith(lower(strip(sql)), <<"s","e","l","e","c","t">>)
    /\ contains(lower(strip(sql)), <<"g","o","l","d","_","p","r","i","c","e">>)
    /\ ~contains(sql, <<";">>)

InvalidDays == pc = "returned" /\ op = "get_price_range" /\ (days < 1 \/ days > 365)

UnsafeRejected == Returned("run_query") /\ result = Failure("unsafe")

\* C4 as stated: a run_query call rejected by the safety gate and a get_price_range
\* call with days outside [1, 365] return with no connection opened and the
\* existence probe not run.
C4_Original ==
    (UnsafeRejected \/ InvalidDays) => (opened = 0 /\ ~probed)

\* C4 amended: a get_price_range call with days outside [1, 365] returns its failure
\* with no connection opened and the existence probe not run; a run_query call
\* rejected by the safety gate returns its failure after the existence probe has run
\* on its one connection, with no further connection opened and nothing handed to
\* the driver.
C4_Amended ==
    /\ InvalidDays => (result = Failure("days_range") /\ opened = 0 /\ ~probed /\ handed = <<>>)
    /\ UnsafeRejected => (probed /\ opened = 1 /\ handed = <<>>)

C4_Witness ==
    /\ UnsafeRejected
    /\ gate = "rejected"
    /\ probed
    /\ opened = 1

\* C5: no connection is open when no operation is in progress.
C5_NoOpenConnection == openConns = 0

\* C6: no tool call lets an exception escape.
C6_NoFaultEscapes == pc = "returned" => result.tag # "raised"

ReachesDatabaseStage ==
    /\ pc = "returned"
    /\ op = "get_price_range" => (days >= 1 /\ days <= 365)

\* C7: when the database file does not exist, every call that reaches the database
\* stage returns a failure (status "missing" for database_status) holding the
\* absolute database path, opens no connection and raises nothing.
C7_MissingFile ==
    (ReachesDatabaseStage /\ ~fileExists)
        => /\ result.database_path = <<"/","w","o","r","k","s","p","a","c","e","s","/","M","C","P","_","P","r","o","j","e","c","t","s","/","g","o","l","d","_","p","r","i","c","e",".","d","b">>
           /\ IF op = "database_status"
              THEN result.tag = "status" /\ result.status = "missing"
              ELSE result.tag = "failure"
           /\ opened = 0
           /\ handed = <<>>

C7_Witness ==
    /\ Returned("run_query")
    /\ ~fileExists
    /\ ~is_safe_sql(sql)
    /\ result.tag = "failure"
    /\ result.database_path # <<>>

Descending(s) == \A i \in 1..(Len(s) - 1) : s[i] > s[i + 1]

\* the dates of the table that are not in s
NotReturned(s) ==
    { rows[i] : i \in 1..Len(rows) } \ { s[i] : i \in 1..Len(s) }

\* C8: get_price_range fails without touching the database when days < 1 or
\* days > 365; otherwise it passes the executor a query limited to days rows by
\* date descending, which the gate accepts, and a success holds at most days
\* rows, the most recent ones, most recent first.
C8_PriceRange ==
    Returned("get_price_range") =>
        IF days < 1 \/ days > 365
        THEN /\ result.tag = "failure"
             /\ opened = 0 /\ ~probed /\ handed = <<>> /\ sql = <<>>
        ELSE /\ probed
             /\ startswith(sql, <<"S","E","L","E","C","T"," ","*"," ","F","R","O","M"," ","g","o","l","d","_","p","r","i","c","e"," ","O","R","D","E","R"," ","B","Y"," ","d","a","t","e"," ","D","E","S","C"," ","L","I","M","I","T"," ">>)
             /\ is_limit_query(sql)
             /\ parse_int(limit_text(sql)) = days
             /\ is_safe_sql(sql)
             /\ gate # "rejected"
             /\ result.tag = "success" =>
                   /\ Len(result.data) <= days
                   /\ Len(result.data) = Min(days, Len(rows))
                   /\ Descending(result.data)
                   /\ \A i \in 1..Len(result.data) :
                          \E j \in 1..Len(rows) : rows[j] = result.data[i]
                   /\ \A x \in NotReturned(result.data) :
                          \A i \in 1..Len(result.data) : x < result.data[i]

C8_Witness ==
    /\ Returned("get_price_range")
    /\ days = 1
    /\ Len(rows) = 2
    /\ result.tag = "success"
    /\ Len(result.data) = 1

\* C9: a successful run_query reports row_count equal to the number of rows
\* returned and echoes the input string unmodified, which is also the string
\* that was executed.
C9_SuccessEcho ==
    (Returned("run_query") /\ result.tag = "success")
        => /\ result.row_count = Len(result.data)
           /\ result.query = sql
           /\ handed = <<sql>>

C9_Witness ==
    /\ Returned("run_query")
    /\ result.tag = "success"
    /\ Len(result.data) > 0
    /\ sql # lower(strip(sql))
    /\ sql # strip(sql)

\* C10: is_safe_sql accepts only strings whose trimmed, lower-cased text starts
\* with select and contains gold_price, and it accepts "select * from gold_price".
C10_SelectGoldPriceOnly ==
    Returned("run_query") =>
        /\ (is_safe_sql(sql) \/ gate = "accepted")
              => /\ startswith(lower(strip(sql)), <<"s","e","l","e","c","t">>)
                 /\ contains(lower(strip(sql)), <<"g","o","l","d","_","p","r","i","c","e">>)
        /\ sql = <<>> => ~is_safe_sql(sql)
        /\ sql = <<"s","e","l","e","c","t"," ","*"," ","f","r","o","m"," ","o","t","h","e","r","_","t","a","b","l","e">> => ~is_safe_sql(sql)
        /\ sql = <<"s","e","l","e","c","t"," ","*"," ","f","r","o","m"," ","g","o","l","d","_","p","r","i","c","e">> => is_safe_sql(sql)

C10_Witness ==
    /\ Returned("run_query")
    /\ sql = <<"s","e","l","e","c","t"," ","*"," ","f","r","o","m"," ","g","o","l","d","_","p","r","i","c","e">>
    /\ gate = "accepted"
    /\ result.tag = "success"

====
